---- MODULE Spec2Model ----
(***************************************************************************)
(* Model of the poker hand evaluator of package joker (hand.go): the       *)
(* canonical five-card form, the ten ranking predicates, the comparator,   *)
(* best-of selection over five-card combinations, and the JSON methods.    *)
(***************************************************************************)
EXTENDS Integers, Sequences, FiniteSets, TLC

(* ------------------------------------------------------------------ *)
(* Ranking constants (hand.go, const block)                            *)
(* ------------------------------------------------------------------ *)
HighCard == 0
Pair == 1
TwoPair == 2
ThreeOfAKind == 3
Straight == 4
Flush == 5
FullHouse == 6
FourOfAKind == 7
StraightFlush == 8
RoyalFlush == 9

High == 0
Low == 1

(* ------------------------------------------------------------------ *)
(* Card / Rank primitives (external collaborator of hand.go)           *)
(* ------------------------------------------------------------------ *)
Two == "2"
Three == "3"
Four == "4"
Five == "5"
Ace == "A"

\* ranks in ascending ace-high order
allRanks == <<"2", "3", "4", "5", "6", "7", "8", "9", "T", "J", "Q", "K", "A">>

Suits == {"s", "h", "d", "c"}

\* ranks of the blank pad cards made by formCards: fmt.Sprintf("?%d", i+1)
BlankRanks == <<"?1", "?2", "?3", "?4", "?5">>

Card(r, s) == [rank |-> r, suit |-> s]

\* every blank card made with the same text
BlankCardSame(i) == Card(BlankRanks[1], BlankRanks[1])

\* the blank card appended at loop index i (0-based) of formCards
BlankCard(i) == Card(BlankRanks[i + 1], BlankRanks[i + 1])

\* Rank.IndexOf: position in allRanks (ascending, ace high), -1 for a rank not listed
IndexOf(r) ==
    CASE r = "2" -> 0 [] r = "3" -> 1 [] r = "4" -> 2 [] r = "5" -> 3 [] r = "6" -> 4
      [] r = "7" -> 5 [] r = "8" -> 6 [] r = "9" -> 7 [] r = "T" -> 8 [] r = "J" -> 9
      [] r = "Q" -> 10 [] r = "K" -> 11 [] r = "A" -> 12 [] OTHER -> -1

\* index of a rank under the ace-low ordering (K > ... > 2 > A)
aceLowIndexOf(r) ==
    IF r = Ace THEN 0
    ELSE IF IndexOf(r) = -1 THEN -1 ELSE IndexOf(r) + 1

\* the rank index used by the card sort selected by opts.AceIsLow
sortIndex(r, aceIsLow) == IF aceIsLow THEN aceLowIndexOf(r) ELSE IndexOf(r)

singularName(r) ==
    CASE r = "2" -> "two" [] r = "3" -> "three" [] r = "4" -> "four"
      [] r = "5" -> "five" [] r = "6" -> "six" [] r = "7" -> "seven"
      [] r = "8" -> "eight" [] r = "9" -> "nine" [] r = "T" -> "ten"
      [] r = "J" -> "jack" [] r = "Q" -> "queen" [] r = "K" -> "king"
      [] r = "A" -> "ace" [] OTHER -> ""

pluralName(r) ==
    CASE r = "6" -> "sixes" [] singularName(r) = "" -> ""
      [] OTHER -> singularName(r) \o "s"

\* combinations(n, k): the k-element index combinations of 1..n whose first
\* index is at least lo, in lexicographic order
RECURSIVE combosFrom(_, _, _)
combosFrom(lo, n, k) ==
    IF k = 0 THEN << <<>> >>
    ELSE IF lo > n - k + 1 THEN <<>>
    ELSE LET rest == combosFrom(lo + 1, n, k - 1)
         IN  [j \in 1..Len(rest) |-> <<lo>> \o rest[j]] \o combosFrom(lo + 1, n, k)

combinations(n, k) == combosFrom(1, n, k)

(* ------------------------------------------------------------------ *)
(* Options                                                             *)
(* ------------------------------------------------------------------ *)
Options(s, is, if, al) ==
    [Sorting |-> s, IgnoreStraights |-> is, IgnoreFlushes |-> if, AceIsLow |-> al]

DefaultOptions == Options(High, FALSE, FALSE, FALSE)

AllOptions ==
    {Options(s, is, if, al) : s \in {High, Low}, is \in BOOLEAN,
                              if \in BOOLEAN, al \in BOOLEAN}

(* ------------------------------------------------------------------ *)
(* Predicate primitives                                                *)
(* ------------------------------------------------------------------ *)
\* cardsForRank: the cards of the given rank, in their order in cards
cardsForRank(cards, r) == SelectSeq(cards, LAMBDA c : c.rank = r)

\* strings.Contains(string(rank), "?")
isBlankRank(r) == \E i \in 1..Len(BlankRanks) : BlankRanks[i] = r

hasBlankCards(cards) == \E i \in 1..Len(cards) : isBlankRank(cards[i].rank)

hasPairs(cards, pairNums) ==
    \A i \in 1..5 : pairNums[i] = Len(cardsForRank(cards, cards[i].rank))

hasFlush(cards) ==
    IF hasBlankCards(cards) THEN FALSE
    ELSE \A i \in 1..Len(cards) : cards[i].suit = cards[1].suit

hasLowStraight(cards) ==
    /\ cards[1].rank = Five
    /\ cards[2].rank = Four
    /\ cards[3].rank = Three
    /\ cards[4].rank = Two
    /\ cards[5].rank = Ace

hasStraight(cards) ==
    IF hasBlankCards(cards) THEN FALSE
    ELSE \/ \A i \in 2..5 : IndexOf(cards[i - 1].rank) = IndexOf(cards[i].rank) + 1
         \/ hasLowStraight(cards)

\* the wheel left as sorted, Ace first
formLowStraightNoRotate(cards) == cards

formLowStraight(cards) ==
    IF /\ cards[1].rank = Ace
       /\ cards[2].rank = Five
       /\ cards[3].rank = Four
       /\ cards[4].rank = Three
       /\ cards[5].rank = Two
    THEN <<cards[2], cards[3], cards[4], cards[5], cards[1]>>
    ELSE cards

(* ------------------------------------------------------------------ *)
(* Canonical form                                                      *)
(* ------------------------------------------------------------------ *)
\* sort.Reverse(byAceHigh / byAceLow).Less(j, j-1): the card at j has a
\* strictly larger rank index than the card before it
reverseLess(s, j, aceIsLow) ==
    sortIndex(s[j - 1].rank, aceIsLow) < sortIndex(s[j].rank, aceIsLow)

swap(s, i, j) == [s EXCEPT ![i] = s[j], ![j] = s[i]]

\* inner loop of the insertion sort that sort.Sort runs on a short slice
RECURSIVE siftDown(_, _, _)
siftDown(s, j, aceIsLow) ==
    IF j > 1 /\ reverseLess(s, j, aceIsLow)
    THEN siftDown(swap(s, j, j - 1), j - 1, aceIsLow)
    ELSE s

RECURSIVE insertionSort(_, _, _)
insertionSort(s, i, aceIsLow) ==
    IF i > Len(s) THEN s
    ELSE insertionSort(siftDown(s, i, aceIsLow), i + 1, aceIsLow)

\* sort.Sort(sort.Reverse(byAceLow(cards))) / ...byAceHigh(cards)
sortCards(cards, aceIsLow) == insertionSort(cards, 2, aceIsLow)

\* allRanks() sorted in descending order of the active rank index
sortedRanks(aceIsLow) ==
    IF aceIsLow
    THEN [i \in 1..Len(allRanks) |->
             IF i = Len(allRanks) THEN Ace ELSE allRanks[Len(allRanks) - i]]
    ELSE [i \in 1..Len(allRanks) |-> allRanks[Len(allRanks) + 1 - i]]

\* inner loop of formCards: the groups of exactly n cards, by rank order
RECURSIVE groupsOfSize(_, _, _, _)
groupsOfSize(cards, ranks, n, k) ==
    IF k > Len(ranks) THEN <<>>
    ELSE LET rCards == cardsForRank(cards, ranks[k])
         IN  (IF Len(rCards) = n THEN rCards ELSE <<>>)
                 \o groupsOfSize(cards, ranks, n, k + 1)

padBlanks(formed) ==
    formed \o [i \in 1..(5 - Len(formed)) |-> BlankCard(i - 1)]

formCards(cards, opts) ==
    LET sorted == sortCards(cards, opts.AceIsLow)
        ranks  == sortedRanks(opts.AceIsLow)
        formed == groupsOfSize(sorted, ranks, 4, 1) \o groupsOfSize(sorted, ranks, 3, 1)
                    \o groupsOfSize(sorted, ranks, 2, 1) \o groupsOfSize(sorted, ranks, 1, 1)
    IN  formLowStraight(padBlanks(formed))

(* ------------------------------------------------------------------ *)
(* Ranking predicates and descriptions                                 *)
(* ------------------------------------------------------------------ *)
highCardValid(cards, opts) ==
    /\ hasPairs(cards, <<1, 1, 1, 1, 1>>)
    /\ (~opts.IgnoreStraights => ~hasStraight(cards))
    /\ (~opts.IgnoreFlushes => ~hasFlush(cards))

pairValid(cards, opts) == hasPairs(cards, <<2, 2, 1, 1, 1>>)

twoPairValid(cards, opts) == hasPairs(cards, <<2, 2, 2, 2, 1>>)

threeOfAKindValid(cards, opts) == hasPairs(cards, <<3, 3, 3, 1, 1>>)

straightValid(cards, opts) ==
    IF opts.IgnoreStraights THEN FALSE
    ELSE ~hasFlush(cards) /\ hasStraight(cards)

flushValid(cards, opts) ==
    IF opts.IgnoreFlushes THEN FALSE
    ELSE hasFlush(cards) /\ ~hasStraight(cards)

fullHouseValid(cards, opts) == hasPairs(cards, <<3, 3, 3, 2, 2>>)

fourOfAKindValid(cards, opts) == hasPairs(cards, <<4, 4, 4, 4, 1>>)

straightFlushValid(cards, opts) ==
    IF opts.IgnoreStraights \/ opts.IgnoreFlushes THEN FALSE
    ELSE cards[1].rank # Ace /\ hasFlush(cards) /\ hasStraight(cards)

royalFlushValid(cards, opts) ==
    IF opts.IgnoreStraights \/ opts.IgnoreFlushes THEN FALSE
    ELSE cards[1].rank = Ace /\ hasFlush(cards) /\ hasStraight(cards)

\* the ranking categories in the order of the rankings list
rankings == <<HighCard, Pair, TwoPair, ThreeOfAKind, Straight, Flush,
              FullHouse, FourOfAKind, StraightFlush, RoyalFlush>>

\* vFunc of the entry of the rankings list whose category is r
vFunc(r, cards, opts) ==
    CASE r = HighCard -> highCardValid(cards, opts)
      [] r = Pair -> pairValid(cards, opts)
      [] r = TwoPair -> twoPairValid(cards, opts)
      [] r = ThreeOfAKind -> threeOfAKindValid(cards, opts)
      [] r = Straight -> straightValid(cards, opts)
      [] r = Flush -> flushValid(cards, opts)
      [] r = FullHouse -> fullHouseValid(cards, opts)
      [] r = FourOfAKind -> fourOfAKindValid(cards, opts)
      [] r = StraightFlush -> straightFlushValid(cards, opts)
      [] r = RoyalFlush -> royalFlushValid(cards, opts)

\* dFunc of the entry of the rankings list whose category is r
dFunc(r, cards) ==
    CASE r = HighCard -> "high card " \o singularName(cards[1].rank) \o " high"
      [] r = Pair -> "pair of " \o pluralName(cards[1].rank)
      [] r = TwoPair -> "two pair " \o pluralName(cards[1].rank) \o " and "
                            \o pluralName(cards[3].rank)
      [] r = ThreeOfAKind -> "three of a kind " \o pluralName(cards[1].rank)
      [] r = Straight -> "straight " \o singularName(cards[1].rank) \o " high"
      [] r = Flush -> "flush " \o singularName(cards[1].rank) \o " high"
      [] r = FullHouse -> "full house " \o pluralName(cards[1].rank) \o " full of "
                            \o pluralName(cards[4].rank)
      [] r = FourOfAKind -> "four of a kind " \o pluralName(cards[1].rank)
      [] r = StraightFlush -> "straight flush " \o singularName(cards[1].rank) \o " high"
      [] r = RoyalFlush -> "royal flush"

(* ------------------------------------------------------------------ *)
(* Hands                                                               *)
(* ------------------------------------------------------------------ *)
Hand(r, cards, d) == [ranking |-> r, cards |-> cards, description |-> d]

\* the outcome of handForFiveCards when no entry of the rankings list matches:
\* panic("should never get here"), so no hand is returned
Panic == [panic |-> "should never get here"]

isPanic(h) == h = Panic

handForFiveCards(cards, opts) ==
    LET formed == formCards(cards, opts)
        match  == {i \in 1..Len(rankings) : vFunc(rankings[i], formed, opts)}
    IN  IF match = {} THEN Panic
        ELSE LET first == CHOOSE i \in match : \A j \in match : i <= j
             IN  Hand(rankings[first], formed, dFunc(rankings[first], formed))

cardCombos(cards) ==
    LET l == IF Len(cards) < 5 THEN Len(cards) ELSE 5
        indexCombos == combinations(Len(cards), l)
    IN  [n \in 1..Len(indexCombos) |->
            [m \in 1..l |-> cards[indexCombos[n][m]]]]

\* the comparison loop run from the last position to the first
firstDiffFromLast(hCards, oCards) ==
    LET diff == {i \in 1..5 : IndexOf(hCards[i].rank) # IndexOf(oCards[i].rank)}
    IN  IF diff = {} THEN 6 ELSE CHOOSE i \in diff : \A j \in diff : i >= j

\* first differing position of two five-card sequences by IndexOf, 6 if none
firstDiff(hCards, oCards) ==
    LET diff == {i \in 1..5 : IndexOf(hCards[i].rank) # IndexOf(oCards[i].rank)}
    IN  IF diff = {} THEN 6 ELSE CHOOSE i \in diff : \A j \in diff : i <= j

\* CompareTo without the comparison of the rankings
CompareToCardsOnly(h, o) ==
    LET i == firstDiff(h.cards, o.cards)
    IN  IF i = 6 THEN 0
        ELSE IndexOf(h.cards[i].rank) - IndexOf(o.cards[i].rank)

CompareTo(h, o) ==
    IF h.ranking # o.ranking THEN h.ranking - o.ranking
    ELSE LET i == firstDiff(h.cards, o.cards)
         IN  IF i = 6 THEN 0
             ELSE IndexOf(h.cards[i].rank) - IndexOf(o.cards[i].rank)

\* ByHighHand.Less on two hands
Less(iHand, jHand) == CompareTo(iHand, jHand) < 0

\* sort.Sort(ByHighHand(hands)) is not stable: the hands that some ordering of
\* hands sorted by Less holds at the 0-based position index
sortedAt(hands, index) ==
    {hands[i] : i \in {i \in 1..Len(hands) :
        /\ Cardinality({j \in 1..Len(hands) : Less(hands[j], hands[i])}) <= index
        /\ Cardinality({j \in 1..Len(hands) : ~Less(hands[i], hands[j])}) >= index + 1}}

\* the index with the test of opts.Sorting left out
pickIndexLast(n, opts) == n - 1

\* the index NewHandWithOptions reads after sorting
pickIndex(n, opts) == IF opts.Sorting = Low THEN 0 ELSE n - 1

\* the set of hands NewHandWithOptions may return; {Panic} when
\* handForFiveCards panics on one of the combinations
NewHandWithOptions(cards, opts) ==
    LET combos == cardCombos(cards)
        hands  == [n \in 1..Len(combos) |-> handForFiveCards(combos[n], opts)]
    IN  IF \E n \in 1..Len(hands) : isPanic(hands[n]) THEN {Panic}
        ELSE sortedAt(hands, pickIndex(Len(hands), opts))

NewHand(cards) == NewHandWithOptions(cards, DefaultOptions)

(* ------------------------------------------------------------------ *)
(* JSON                                                                *)
(* ------------------------------------------------------------------ *)
\* Ranking.String: the name of the ranking
rankingNames(r) ==
    CASE r = HighCard -> "high card" [] r = Pair -> "pair" [] r = TwoPair -> "two pair"
      [] r = ThreeOfAKind -> "three of a kind" [] r = Straight -> "straight"
      [] r = Flush -> "flush" [] r = FullHouse -> "full house"
      [] r = FourOfAKind -> "four of a kind" [] r = StraightFlush -> "straight flush"
      [] r = RoyalFlush -> "royal flush"

\* decimal text of a ranking
rankingDigits(r) == <<"0", "1", "2", "3", "4", "5", "6", "7", "8", "9">>[r + 1]

\* Card.MarshalJSON: the card as a string token, rank then suit
cardToken(c) == c.rank \o c.suit

\* Card.UnmarshalJSON: the card a token names
parseCard(t) ==
    CHOOSE c \in {Card(allRanks[i], su) : i \in 1..Len(allRanks), su \in Suits} :
        cardToken(c) = t

\* a document {"ranking":<ranking>,"cards":[...],"description":"..."}; ranking
\* holds the text written after "ranking": without quotes
Document(rankingText, tokens, d) ==
    [ranking |-> rankingText, cards |-> tokens, description |-> d]

\* MarshalJSON: %v formats h.Ranking() through Ranking.String
MarshalJSON(h) ==
    Document(rankingNames(h.ranking),
             [i \in 1..Len(h.cards) |-> cardToken(h.cards[i])],
             h.description)

\* the format the comments of MarshalJSON and UnmarshalJSON give:
\* {"ranking":9,"cards":["A♠","K♠","Q♠","J♠","T♠"],"description":"royal flush"}
documentedJSON(h) ==
    Document(rankingDigits(h.ranking),
             [i \in 1..Len(h.cards) |-> cardToken(h.cards[i])],
             h.description)

\* json.Unmarshal accepts the document: the text after "ranking": is a JSON
\* value, which among the texts above only a number is
validJSON(b) == \E r \in 0..9 : b.ranking = rankingDigits(r)

\* m.Cards after json.Unmarshal(b, m)
decodeCards(b) == [i \in 1..Len(b.cards) |-> parseCard(b.cards[i])]

\* the Hand{} zero value
zeroHand == Hand(HighCard, <<>>, "")

(* ------------------------------------------------------------------ *)
(* Bounds and input sets                                               *)
(* ------------------------------------------------------------------ *)
\* number of cards of each deck that inputs are dealt from
ClassifyDeckSize == 14
BestDeckSize == 10
OrderDeckSize == 5
WheelDeckSize == 8
GroupDeckSize == 8
KickerDeckSize == 7
JSONDeckSize == 6

ClassifyDeck ==
    <<Card("4", "s"), Card("A", "h"), Card("K", "s"), Card("2", "s"), Card("A", "s"),
      Card("T", "s"), Card("5", "s"), Card("A", "d"), Card("Q", "s"), Card("3", "s"),
      Card("K", "h"), Card("J", "s"), Card("6", "s"), Card("A", "c"), Card("9", "s"),
      Card("K", "d")>>

BestDeck ==
    <<Card("5", "h"), Card("A", "s"), Card("3", "s"), Card("K", "s"), Card("2", "s"),
      Card("4", "s"), Card("6", "s"), Card("5", "s"), Card("A", "h"), Card("3", "h"),
      Card("K", "h"), Card("9", "d")>>

OrderDeck ==
    <<Card("2", "s"), Card("A", "s"), Card("K", "h"), Card("2", "h"), Card("A", "h"),
      Card("K", "s"), Card("Q", "d")>>

WheelDeck ==
    <<Card("3", "d"), Card("A", "s"), Card("5", "s"), Card("2", "h"), Card("4", "c"),
      Card("6", "h"), Card("A", "h"), Card("5", "h"), Card("7", "s"), Card("3", "s")>>

GroupDeck ==
    <<Card("2", "h"), Card("K", "s"), Card("Q", "s"), Card("K", "c"), Card("Q", "c"),
      Card("2", "d"), Card("K", "d"), Card("Q", "d"), Card("A", "h"), Card("A", "d"),
      Card("2", "s"), Card("A", "s")>>

KickerDeck ==
    <<Card("9", "h"), Card("A", "s"), Card("K", "s"), Card("2", "d"), Card("J", "c"),
      Card("Q", "h"), Card("9", "s"), Card("A", "d"), Card("2", "s")>>

JSONDeck ==
    <<Card("T", "s"), Card("A", "s"), Card("Q", "s"), Card("K", "s"), Card("J", "s"),
      Card("A", "h"), Card("9", "s"), Card("K", "h")>>

\* the subsets of the first n cards of deck that hold lo to hi cards, each as
\* a slice in deck order
InputsOf(deck, n, lo, hi) ==
    LET idx == {S \in SUBSET (1..n) : Cardinality(S) >= lo /\ Cardinality(S) <= hi}
        nth(S, m) == CHOOSE i \in S : Cardinality({j \in S : j < i}) = m - 1
    IN  {[m \in 1..Cardinality(S) |-> deck[nth(S, m)]] : S \in idx}

\* a total order on card slices, used only to list each group of inputs once
RECURSIVE sliceBefore(_, _)
sliceBefore(x, y) ==
    IF x = <<>> THEN TRUE
    ELSE IF y = <<>> THEN FALSE
    ELSE LET kx == <<IndexOf(Head(x).rank), Head(x).suit>>
             ky == <<IndexOf(Head(y).rank), Head(y).suit>>
         IN  IF kx = ky THEN sliceBefore(Tail(x), Tail(y))
             ELSE \/ kx[1] < ky[1]
                  \/ kx[1] = ky[1] /\ kx[2] = "c"
                  \/ kx[1] = ky[1] /\ kx[2] = "d" /\ ky[2] # "c"
                  \/ kx[1] = ky[1] /\ kx[2] = "h" /\ ky[2] = "s"

\* the pairs <<x, y>> of members of inputs, each unordered pair listed once
UnorderedPairs(inputs) ==
    {p \in inputs \X inputs : sliceBefore(p[1], p[2])}

\* the triples <<x, y, z>> of members of inputs, each unordered triple once
UnorderedTriples(inputs) ==
    {t \in inputs \X inputs \X inputs :
        sliceBefore(t[1], t[2]) /\ sliceBefore(t[2], t[3])}

\* Options with the ignore flags off and the high sorting
AceOptions == {Options(High, FALSE, FALSE, al) : al \in BOOLEAN}

(* ------------------------------------------------------------------ *)
(* State                                                               *)
(* ------------------------------------------------------------------ *)
VARIABLES
    pc,      \* "input", "built", "compared", "panicked", "encoded", "decoded"
    cards,   \* the input card slices of the calls to NewHandWithOptions
    opts,    \* the Options passed to every call
    hands,   \* the hands returned so far, one per input slice
    cmp,     \* cmp[i][j] = hands[i].CompareTo(hands[j]), <<>> until compared
    data,    \* the document handed to UnmarshalJSON, <<>> until encoded
    recv,    \* the Hand that UnmarshalJSON is called on
    hLocal,  \* the Hand the parameter h of UnmarshalJSON points to at return
    err      \* what UnmarshalJSON returned: "none" (no call yet), "nil", "error"

vars == <<pc, cards, opts, hands, cmp, data, recv, hLocal, err>>

jsonVars == <<data, recv, hLocal, err>>

\* one call hands[i] = NewHandWithOptions(cards[i], opts)
Build ==
    /\ pc = "input"
    /\ LET i == Len(hands) + 1
       IN  \E h \in NewHandWithOptions(cards[i], opts) :
               /\ hands' = Append(hands, h)
               /\ pc' = IF isPanic(h) THEN "panicked"
                        ELSE IF i = Len(cards) THEN "built" ELSE "input"
    /\ UNCHANGED <<cards, opts, cmp>>
    /\ UNCHANGED jsonVars

\* every hand compared to every hand with CompareTo
Compare ==
    /\ pc = "built"
    /\ cmp' = [i \in 1..Len(hands) |->
                  [j \in 1..Len(hands) |-> CompareTo(hands[i], hands[j])]]
    /\ pc' = "compared"
    /\ UNCHANGED <<cards, opts, hands>>
    /\ UNCHANGED jsonVars

\* b, _ := hands[1].MarshalJSON()
Marshal ==
    /\ pc = "built"
    /\ data' = MarshalJSON(hands[1])
    /\ pc' = "encoded"
    /\ UNCHANGED <<cards, opts, hands, cmp, recv, hLocal, err>>

\* b is the document of hands[1] in the documented format
Documented ==
    /\ pc = "built"
    /\ data' = documentedJSON(hands[1])
    /\ pc' = "encoded"
    /\ UNCHANGED <<cards, opts, hands, cmp, recv, hLocal, err>>

\* err := recv.UnmarshalJSON(b). The parameter h starts as a pointer to recv;
\* h = NewHand(m.Cards) points h at the new hand and leaves recv as it was.
UnmarshalJSON ==
    /\ pc = "encoded"
    /\ IF ~validJSON(data)
       THEN /\ err' = "error"
            /\ hLocal' = recv
       ELSE /\ err' = "nil"
            /\ hLocal' \in NewHand(decodeCards(data))
    /\ recv' = recv
    /\ pc' = "decoded"
    /\ UNCHANGED <<cards, opts, hands, cmp, data>>

noJSON ==
    /\ data = <<>>
    /\ recv = zeroHand
    /\ hLocal = zeroHand
    /\ err = "none"

(* ------------------------------------------------------------------ *)
(* Specifications                                                      *)
(* ------------------------------------------------------------------ *)
\* classification of one slice of one to five cards under every flag setting
InitClassify ==
    /\ pc = "input"
    /\ \E c \in InputsOf(ClassifyDeck, ClassifyDeckSize, 1, 5) : cards = <<c>>
    /\ opts \in {o \in AllOptions : o.Sorting = High}
    /\ hands = <<>>
    /\ cmp = <<>>
    /\ noJSON

NextClassify == Build

SpecClassify == InitClassify /\ [][NextClassify]_vars

\* selection among the combinations of five to seven cards, flags off, ace high
InitBest ==
    /\ pc = "input"
    /\ \E c \in InputsOf(BestDeck, BestDeckSize, 5, 7) : cards = <<c>>
    /\ opts \in {Options(so, FALSE, FALSE, FALSE) : so \in {High, Low}}
    /\ hands = <<>>
    /\ cmp = <<>>
    /\ noJSON

NextBest == Build

SpecBest == InitBest /\ [][NextBest]_vars

\* three slices of three to five cards, evaluated and compared
InitOrder ==
    /\ pc = "input"
    /\ cards \in UnorderedTriples(InputsOf(OrderDeck, OrderDeckSize, 3, 5))
    /\ opts \in AceOptions
    /\ hands = <<>>
    /\ cmp = <<>>
    /\ noJSON

NextOrder == Build \/ Compare

SpecOrder == InitOrder /\ [][NextOrder]_vars

\* two five-card slices of one deck, evaluated and compared
InitPair ==
    /\ pc = "input"
    /\ \/ /\ cards \in UnorderedPairs(InputsOf(WheelDeck, WheelDeckSize, 5, 5))
          /\ opts = DefaultOptions
       \/ /\ cards \in UnorderedPairs(InputsOf(GroupDeck, GroupDeckSize, 5, 5))
          /\ opts = DefaultOptions
       \/ /\ cards \in UnorderedPairs(InputsOf(KickerDeck, KickerDeckSize, 5, 5))
          /\ opts \in AceOptions
    /\ hands = <<>>
    /\ cmp = <<>>
    /\ noJSON

NextPair == Build \/ Compare

SpecPair == InitPair /\ [][NextPair]_vars

\* a hand of five or six cards encoded, then decoded into a receiver that is
\* the zero Hand or a hand of five cards of the deck
InitJSON ==
    /\ pc = "input"
    /\ \E c \in InputsOf(JSONDeck, JSONDeckSize, 5, 6) : cards = <<c>>
    /\ opts = DefaultOptions
    /\ hands = <<>>
    /\ cmp = <<>>
    /\ data = <<>>
    /\ recv \in {zeroHand} \cup
                 {handForFiveCards(c, DefaultOptions) :
                      c \in InputsOf(JSONDeck, JSONDeckSize, 5, 5)}
    /\ hLocal = recv
    /\ err = "none"

NextJSON == Build \/ Marshal \/ Documented \/ UnmarshalJSON

SpecJSON == InitJSON /\ [][NextJSON]_vars

(* ------------------------------------------------------------------ *)
(* Properties                                                          *)
(* ------------------------------------------------------------------ *)
sign(x) == IF x > 0 THEN 1 ELSE IF x < 0 THEN -1 ELSE 0

\* the ranks of a card slice as a set, and position by position
rankSet(cs) == {cs[i].rank : i \in 1..Len(cs)}
ranksOf(cs) == [i \in 1..Len(cs) |-> cs[i].rank]
suitSet(cs) == {cs[i].suit : i \in 1..Len(cs)}

\* number of cards of rank r in a slice
countOf(cs, r) == Cardinality({i \in 1..Len(cs) : cs[i].rank = r})

\* the five-card slices of an input, taken by index set, last index first
fiveSubsets(cs) ==
    LET nthLast(S, m) == CHOOSE i \in S : Cardinality({j \in S : j > i}) = m - 1
    IN  {[m \in 1..5 |-> cs[nthLast(S, m)]] :
            S \in {T \in SUBSET (1..Len(cs)) : Cardinality(T) = 5}}

\* C1: with the ignore flags off and ace high, the hand NewHandWithOptions
\* returns for 5 to 7 distinct cards compares >= 0 (Sorting = High) or <= 0
\* (Sorting = Low) with the hand of every 5-card subset of the input.
C1_BestOfSubsets ==
    (pc # "input" /\ ~opts.IgnoreStraights /\ ~opts.IgnoreFlushes /\ ~opts.AceIsLow
        /\ Len(cards[1]) >= 5 /\ Len(cards[1]) <= 7)
    => /\ ~isPanic(hands[1])
       /\ \A c \in fiveSubsets(cards[1]) :
              LET h == handForFiveCards(c, opts)
              IN  IF opts.Sorting = High
                  THEN CompareTo(hands[1], h) >= 0
                  ELSE CompareTo(hands[1], h) <= 0

\* a 7-card input under Sorting = Low whose result is strictly below the hand
\* of one of its subsets
C1_Witness ==
    /\ pc = "built"
    /\ Len(cards[1]) = 7
    /\ opts.Sorting = Low
    /\ \E c \in fiveSubsets(cards[1]) :
           CompareTo(hands[1], handForFiveCards(c, opts)) < 0

\* the entries of the rankings list whose predicate holds of the canonical
\* form of a slice
matching(cs, o) ==
    LET formed == formCards(cs, o)
    IN  {i \in 1..Len(rankings) : vFunc(rankings[i], formed, o)}

\* C2: for every flag setting and every slice of 1 to 5 distinct cards exactly
\* one of the ten ranking predicates holds of the canonical hand, and
\* handForFiveCards does not panic.
C2_ExactlyOnePredicate ==
    pc # "input"
    => /\ Cardinality(matching(cards[1], opts)) = 1
       /\ pc # "panicked"

\* C3: CompareTo is a total preorder on the hands NewHandWithOptions returns:
\* antisymmetric in sign, zero on a hand and itself, transitive; the larger
\* ranking wins whatever the ranks; equal ranking and equal ranks at all five
\* positions compare as 0 whatever the suits.
C3_TotalPreorder ==
    pc = "compared"
    => \A i \in 1..Len(hands), j \in 1..Len(hands) :
          /\ cmp[i][i] = 0
          /\ sign(cmp[i][j]) = -sign(cmp[j][i])
          /\ \A k \in 1..Len(hands) :
                 (cmp[i][j] >= 0 /\ cmp[j][k] >= 0) => cmp[i][k] >= 0
          /\ hands[i].ranking > hands[j].ranking => cmp[i][j] > 0
          /\ (/\ hands[i].ranking = hands[j].ranking
              /\ ranksOf(hands[i].cards) = ranksOf(hands[j].cards)) => cmp[i][j] = 0

\* three hands in a strict chain whose top hand wins by ranking although its
\* first card is the lower one, and two hands of equal ranks and other suits
C3_Witness ==
    /\ pc = "compared"
    /\ cmp[1][2] > 0 /\ cmp[2][3] > 0 /\ cmp[1][3] > 0
    /\ hands[1].ranking > hands[2].ranking
    /\ IndexOf(hands[1].cards[1].rank) < IndexOf(hands[2].cards[1].rank)

\* first position at which two canonical hands hold different ranks, 0 if none
firstRankDiff(a, b) ==
    LET diff == {p \in 1..5 : a[p].rank # b[p].rank}
    IN  IF diff = {} THEN 0 ELSE CHOOSE p \in diff : \A q \in diff : p <= q

\* C5: two hands of one ranking, built under the same Options, compare by the
\* rank index of the active ace ordering at the first differing position:
\* under AceIsLow an Ace there is below a Two, under ace high above a King.
C5_ActiveAceOrdering ==
    pc = "compared"
    => \A i \in 1..Len(hands), j \in 1..Len(hands) :
          LET p == firstRankDiff(hands[i].cards, hands[j].cards)
          IN  (hands[i].ranking = hands[j].ranking /\ p # 0)
              => sign(cmp[i][j]) =
                   sign(sortIndex(hands[i].cards[p].rank, opts.AceIsLow)
                          - sortIndex(hands[j].cards[p].rank, opts.AceIsLow))

\* the input is a wheel: Ace, Two, Three, Four, Five, not all of one suit
isOffsuitWheel(cs) ==
    /\ Len(cs) = 5
    /\ rankSet(cs) = {Ace, Two, Three, Four, Five}
    /\ Cardinality(suitSet(cs)) > 1

\* C6: under default options an off-suit wheel is a Straight ordered
\* <<5, 4, 3, 2, A>> described "straight five high"; it compares below every
\* other Straight and equal to every other wheel straight.
C6_WheelStraight ==
    (pc = "compared" /\ opts = DefaultOptions)
    => \A i \in 1..Len(hands) :
          isOffsuitWheel(cards[i])
          => /\ hands[i].ranking = Straight
             /\ ranksOf(hands[i].cards) = <<Five, Four, Three, Two, Ace>>
             /\ hands[i].description = "straight five high"
             /\ \A j \in 1..Len(hands) :
                    hands[j].ranking = Straight
                    => IF isOffsuitWheel(cards[j])
                       THEN cmp[i][j] = 0
                       ELSE cmp[i][j] < 0 /\ cmp[j][i] > 0

\* an off-suit wheel compared with a Straight that is no wheel, and beaten
C6_Witness ==
    /\ pc = "compared"
    /\ opts = DefaultOptions
    /\ \E i \in 1..2, j \in 1..2 :
           /\ isOffsuitWheel(cards[i])
           /\ hands[j].ranking = Straight
           /\ ~isOffsuitWheel(cards[j])
           /\ cmp[i][j] < 0

\* the rank held by exactly n cards of a slice
groupRank(cs, n) == CHOOSE r \in rankSet(cs) : countOf(cs, r) = n

\* C8: of two FullHouse hands the one with the higher triple rank wins
\* whatever the pair ranks are, and the pair rank decides only when the triple
\* ranks are equal (default options; ranks in ace-high order).
C8_TripleBeforePair ==
    (pc = "compared" /\ opts = DefaultOptions)
    => \A i \in 1..Len(hands), j \in 1..Len(hands) :
          (hands[i].ranking = FullHouse /\ hands[j].ranking = FullHouse)
          => LET ti == IndexOf(groupRank(cards[i], 3))
                 tj == IndexOf(groupRank(cards[j], 3))
                 pi == IndexOf(groupRank(cards[i], 2))
                 pj == IndexOf(groupRank(cards[j], 2))
             IN  /\ ti > tj => cmp[i][j] > 0
                 /\ ti = tj => sign(cmp[i][j]) = sign(pi - pj)

\* two full houses: one with the higher triple and the lower pair, which wins
C8_Witness ==
    /\ pc = "compared"
    /\ opts = DefaultOptions
    /\ \E i \in 1..2, j \in 1..2 :
           /\ hands[i].ranking = FullHouse
           /\ hands[j].ranking = FullHouse
           /\ IndexOf(groupRank(cards[i], 3)) > IndexOf(groupRank(cards[j], 3))
           /\ IndexOf(groupRank(cards[i], 2)) < IndexOf(groupRank(cards[j], 2))
           /\ cmp[i][j] > 0

\* C4: with IgnoreStraights alone set, a 5-card hand that is Straight,
\* StraightFlush or RoyalFlush under default options is classified Flush when
\* its five cards share a suit and HighCard otherwise; with IgnoreFlushes
\* alone set, a hand that is Flush, StraightFlush or RoyalFlush under default
\* options is classified Straight when its ranks are consecutive and HighCard
\* otherwise.
C4_IgnoredShapesFallThrough ==
    (pc # "input" /\ Len(cards[1]) = 5 /\ ~opts.AceIsLow)
    => LET d == handForFiveCards(cards[1], DefaultOptions).ranking
           oneSuit == Cardinality(suitSet(cards[1])) = 1
           consecutive == d \in {StraightFlush, RoyalFlush}
       IN  /\ (/\ opts.IgnoreStraights /\ ~opts.IgnoreFlushes
               /\ d \in {Straight, StraightFlush, RoyalFlush})
              => /\ pc = "built"
                 /\ hands[1].ranking = IF oneSuit THEN Flush ELSE HighCard
           /\ (/\ opts.IgnoreFlushes /\ ~opts.IgnoreStraights
               /\ d \in {Flush, StraightFlush, RoyalFlush})
              => /\ pc = "built"
                 /\ hands[1].ranking = IF consecutive THEN Straight ELSE HighCard

\* the cards after the first n of a canonical hand are blank, each alone in its
\* rank group, and the hand has neither flush nor straight
blanksInert(h, n) ==
    /\ \A i \in (n + 1)..5 :
           /\ isBlankRank(h[i].rank)
           /\ Len(cardsForRank(h, h[i].rank)) = 1
    /\ ~hasFlush(h)
    /\ ~hasStraight(h)

\* C7 as claimed: an input of 2 to 4 cards yields a hand padded with blanks to
\* 5 cards whose ranking is HighCard, and the blanks contribute to no pair,
\* flush or straight predicate.
C7_ShortInputHighCard ==
    (pc # "input" /\ Len(cards[1]) >= 2 /\ Len(cards[1]) <= 4)
    => /\ pc = "built"
       /\ Len(hands[1].cards) = 5
       /\ hands[1].ranking = HighCard
       /\ blanksInert(hands[1].cards, Len(cards[1]))

\* the ranking that the rank groups of a slice of at most four cards make
groupedRanking(cs) ==
    LET groups(n) == Cardinality({r \in rankSet(cs) : countOf(cs, r) = n})
    IN  IF groups(4) = 1 THEN FourOfAKind
        ELSE IF groups(3) = 1 THEN ThreeOfAKind
        ELSE IF groups(2) = 2 THEN TwoPair
        ELSE IF groups(2) = 1 THEN Pair
        ELSE HighCard

\* C7 amended: an input of 2 to 4 cards yields a hand of the input cards padded
\* with blanks to 5 cards; its ranking is HighCard when the ranks are pairwise
\* distinct and otherwise Pair, TwoPair, ThreeOfAKind or FourOfAKind as the
\* repeated ranks make it; the blanks contribute to no pair, flush or straight
\* predicate.
C7_ShortInputGrouped ==
    (pc # "input" /\ Len(cards[1]) >= 2 /\ Len(cards[1]) <= 4)
    => /\ pc = "built"
       /\ Len(hands[1].cards) = 5
       /\ {hands[1].cards[i] : i \in 1..Len(cards[1])}
              = {cards[1][i] : i \in 1..Len(cards[1])}
       /\ hands[1].ranking = groupedRanking(cards[1])
       /\ blanksInert(hands[1].cards, Len(cards[1]))

\* two cards of one rank, evaluated to a Pair
C7_Witness ==
    /\ pc = "built"
    /\ Len(cards[1]) = 2
    /\ hands[1].ranking = Pair
    /\ isBlankRank(hands[1].cards[3].rank)

\* group size descending, then active rank index descending, blanks last
canonicalOrder(h, aceIsLow) ==
    \A i \in 1..4 :
        LET a == h[i]
            b == h[i + 1]
            na == Len(cardsForRank(h, a.rank))
            nb == Len(cardsForRank(h, b.rank))
        IN  /\ isBlankRank(a.rank) => isBlankRank(b.rank)
            /\ (~isBlankRank(a.rank) /\ ~isBlankRank(b.rank))
               => \/ na > nb
                  \/ na = nb /\ sortIndex(a.rank, aceIsLow) >= sortIndex(b.rank, aceIsLow)

\* C9: the cards of a hand are in canonical order, except for the wheel with
\* its Ace last, which appears only in hands classified Straight or
\* StraightFlush; a HighCard hand has its highest rank first.
C9_CanonicalOrder ==
    pc = "built"
    => /\ \/ canonicalOrder(hands[1].cards, opts.AceIsLow)
          \/ /\ ranksOf(hands[1].cards) = <<Five, Four, Three, Two, Ace>>
             /\ hands[1].ranking \in {Straight, StraightFlush}
       /\ hands[1].ranking = HighCard
          => \A i \in 2..5 :
                 ~isBlankRank(hands[1].cards[i].rank)
                 => sortIndex(hands[1].cards[1].rank, opts.AceIsLow)
                      >= sortIndex(hands[1].cards[i].rank, opts.AceIsLow)

\* C10: when UnmarshalJSON returns nil, the receiver has the ranking, cards and
\* description of the hand formed from the cards listed in the document,
\* whatever it held before.
C10_RoundTrip ==
    (pc = "decoded" /\ err = "nil")
    => \E e \in NewHand(decodeCards(data)) :
          /\ recv.ranking = e.ranking
          /\ recv.cards = e.cards
          /\ recv.description = e.description

====
